---- MODULE Spec2Model ----
(***************************************************************************)
(* Model of pltform/utils.py: the Config store (load / config), rankdata,  *)
(* parse_argv (with its typecast helper) and replace_tokens.               *)
(*                                                                         *)
(* Python dicts are functions with a finite DOMAIN, lists are sequences,   *)
(* strings that the code inspects character by character are sequences of  *)
(* one-character strings.                                                  *)
(***************************************************************************)
EXTENDS Integers, Sequences, FiniteSets, TLC

VARIABLES
    pc,            \* which component is running and where it stands
    config_dir,    \* Config.config_dir
    filepaths,     \* Config.filepaths
    profile_data,  \* Config.profile_data
    loaded,        \* the documents read by the successful loads, in load order
    ret_params,    \* the mapping object the last successful config() returned
    op,            \* the last Config operation, its arguments and its outcome
    mutations,     \* how many times callers have written to a returned mapping
    a, method, reverse, newarray,   \* rankdata: arguments and return value
    argv, parsed,                   \* parse_argv: argument and return value
    fmt, kwargs, new_str            \* replace_tokens: arguments and return value

cfgvars  == <<config_dir, filepaths, profile_data, loaded, ret_params, op, mutations>>
rankvars == <<a, method, reverse, newarray>>
argvvars == <<argv, parsed>>
fmtvars  == <<fmt, kwargs, new_str>>
vars     == <<pc, cfgvars, rankvars, argvvars, fmtvars>>

Range(s) == {s[i] : i \in DOMAIN s}

(***************************************************************************)
(* Config                                                                  *)
(***************************************************************************)

DEFAULT_PROFILE == "default"

\* profile=None of config(); `if profile:` is false for it
NoProfile == ""
\* config_dir=None of __init__; `if self.config_dir` is false for it
NoDir == <<>>

Profiles == {DEFAULT_PROFILE, "alt", "dev"}
Sections == {"s1", "s2"}
Keys     == {"a", "b"}

\* parameter values: scalars and nested mappings
Scalar(n) == [scalar |-> n]
NestedX   == [x |-> 1]
NestedY   == [y |-> 2]

EmptyDict == <<>>

\* ---- documents yaml.safe_load can hand to load() ----
Sec(name, params) == [name |-> name, kind |-> "map", params |-> params]
\* a section whose value is a scalar, not a mapping
ScalarSec(name)   == [name |-> name, kind |-> "scalar", params |-> EmptyDict]
Prof(name, sections) == [name |-> name, kind |-> "map", sections |-> sections]
\* a profile with an empty body: YAML gives None
NoneProf(name)       == [name |-> name, kind |-> "none", sections |-> <<>>]
Doc(profiles) == [kind |-> "map", profiles |-> profiles]
\* the file cannot be opened or parsed
Unreadable == [kind |-> "unreadable", profiles |-> <<>>]
\* the file parses to a falsy document
EmptyDoc   == [kind |-> "empty", profiles |-> <<>>]

DocBase  == Doc(<< Prof(DEFAULT_PROFILE,
                        << Sec("s1", ("a" :> Scalar(1)) @@ ("b" :> NestedX)) >>) >>)
DocOver  == Doc(<< Prof(DEFAULT_PROFILE,
                        << Sec("s1", ("b" :> NestedY)), Sec("s2", ("a" :> Scalar(2))) >>),
                   Prof("alt", << Sec("s1", ("a" :> Scalar(3))) >>) >>)
DocAlt   == Doc(<< Prof("alt", << Sec("s1", ("b" :> Scalar(4))), Sec("s2", ("b" :> Scalar(4))) >>),
                   Prof("dev", << Sec("s2", ("a" :> Scalar(5))) >>) >>)
DocDev   == Doc(<< Prof("dev", <<>>) >>)
\* default merges, then alt has an empty body
DocNoneProf  == Doc(<< Prof(DEFAULT_PROFILE, << Sec("s1", ("a" :> Scalar(6))) >>),
                       NoneProf("alt") >>)
\* a section with a scalar value
DocScalarSec == Doc(<< Prof(DEFAULT_PROFILE, << ScalarSec("s2") >>) >>)

WellFormedDocs == {DocBase, DocOver, DocAlt, DocDev}
Docs == WellFormedDocs \cup {DocNoneProf, DocScalarSec, EmptyDoc, Unreadable}

\* ---- file names and paths: sequences of path components ----
Cwd == <<"", "work">>
ConfigDirs == {NoDir, <<"etc">>}
FileNames == { <<"a.yml">>, <<".", "a.yml">>, <<"b.yml">> }

\* os.path.realpath of a relative name: absolute, "." components removed
realpath(file) == Cwd \o SelectSeq(file, LAMBDA c : c # ".")
\* os.path.join
join(dir, file) == dir \o file
\* load(): path = ...
resolve(file) == IF config_dir # NoDir THEN join(config_dir, file) ELSE realpath(file)

\* the section is replaced by the incoming mapping instead of merged
update_replace(old, new) == new

\* dict.update
update(old, new) ==
    [k \in (DOMAIN old) \cup (DOMAIN new) |-> IF k \in DOMAIN new THEN new[k] ELSE old[k]]

\* dict.get(key, {})
get(d, key) == IF key \in DOMAIN d THEN d[key] ELSE EmptyDict

\* load(): `for section in cfg[profile]` from the i-th section on, over the
\* profile's dict pd; raised when update() is handed a non-mapping
RECURSIVE merge_sections(_, _, _)
merge_sections(pd, sections, i) ==
    IF i > Len(sections) THEN [data |-> pd, raised |-> FALSE]
    ELSE LET sec == sections[i]
             pd1 == IF sec.name \in DOMAIN pd THEN pd ELSE pd @@ (sec.name :> EmptyDict)
         IN  IF sec.kind # "map"
             THEN [data |-> pd1, raised |-> TRUE]
             ELSE merge_sections([pd1 EXCEPT ![sec.name] = update(@, sec.params)],
                                 sections, i + 1)

\* load(): `for profile in cfg` from the i-th profile on; raised when a
\* profile's body cannot be iterated or a section raises
RECURSIVE merge_profiles(_, _, _)
merge_profiles(data, profiles, i) ==
    IF i > Len(profiles) THEN [data |-> data, raised |-> FALSE]
    ELSE LET prof  == profiles[i]
             data1 == IF prof.name \in DOMAIN data THEN data
                      ELSE data @@ (prof.name :> EmptyDict)
         IN  IF prof.kind # "map"
             THEN [data |-> data1, raised |-> TRUE]
             ELSE LET r     == merge_sections(data1[prof.name], prof.sections, 1)
                      data2 == [data1 EXCEPT ![prof.name] = r.data]
                  IN  IF r.raised THEN [data |-> data2, raised |-> TRUE]
                      ELSE merge_profiles(data2, profiles, i + 1)

NoRet == [kind |-> "none", section |-> "", value |-> EmptyDict]

Op(name, status, file, section, profile, value) ==
    [name |-> name, status |-> status, file |-> file, section |-> section,
     profile |-> profile, value |-> value]

\* how many files a run loads successfully
MaxLoads == 2

\* the test for a recorded path is lost
never_loaded(path) == FALSE

\* load(): `path in self.filepaths`
already_loaded(path) == path \in Range(filepaths)

\* Config.load
load(file, cfg) ==
    LET path == resolve(file) IN
    /\ pc = "config"
    /\ already_loaded(path) \/ Len(filepaths) < MaxLoads
    /\ IF already_loaded(path)
       THEN /\ op' = Op("load", "False", path, "", "", EmptyDict)
            /\ UNCHANGED <<filepaths, profile_data, loaded>>
       ELSE IF cfg.kind # "map"
       THEN /\ op' = Op("load", "raise", path, "", "", EmptyDict)
            /\ UNCHANGED <<filepaths, profile_data, loaded>>
       ELSE LET r == merge_profiles(profile_data, cfg.profiles, 1) IN
            /\ profile_data' = r.data
            /\ IF r.raised
               THEN /\ op' = Op("load", "raise", path, "", "", EmptyDict)
                    /\ UNCHANGED <<filepaths, loaded>>
               ELSE /\ op' = Op("load", "True", path, "", "", EmptyDict)
                    /\ filepaths' = Append(filepaths, path)
                    /\ loaded' = Append(loaded, cfg)
    /\ UNCHANGED <<pc, config_dir, ret_params, mutations, rankvars, argvvars, fmtvars>>

\* the content of the mapping object a reference denotes
deref(ref) ==
    IF ref.kind = "alias" THEN profile_data[DEFAULT_PROFILE][ref.section] ELSE ref.value

\* Config.config: the returned object is the stored default section itself
\* when the section exists, a new dict otherwise
config(section, profile) ==
    /\ pc = "config"
    /\ IF DEFAULT_PROFILE \notin DOMAIN profile_data
       THEN /\ op' = Op("config", "raise", <<>>, section, profile, EmptyDict)
            /\ UNCHANGED <<profile_data, ret_params>>
       ELSE LET default_data == profile_data[DEFAULT_PROFILE]
                stored       == section \in DOMAIN default_data
                ref          == IF stored
                                THEN [kind |-> "alias", section |-> section, value |-> EmptyDict]
                                ELSE [kind |-> "fresh", section |-> section, value |-> EmptyDict]
            IN  IF profile = NoProfile
                THEN /\ ret_params' = ref
                     /\ op' = Op("config", "ok", <<>>, section, profile, get(default_data, section))
                     /\ UNCHANGED profile_data
                ELSE IF profile \notin DOMAIN profile_data
                THEN /\ op' = Op("config", "raise", <<>>, section, profile, EmptyDict)
                     /\ UNCHANGED <<profile_data, ret_params>>
                ELSE LET profile_params == get(profile_data[profile], section)
                         merged == update(get(default_data, section), profile_params)
                     IN  /\ profile_data' =
                                IF stored
                                THEN [profile_data EXCEPT ![DEFAULT_PROFILE][section] = merged]
                                ELSE profile_data
                         /\ ret_params' = IF stored THEN ref ELSE [ref EXCEPT !.value = merged]
                         /\ op' = Op("config", "ok", <<>>, section, profile, merged)
    /\ UNCHANGED <<pc, config_dir, filepaths, loaded, mutations, rankvars, argvvars, fmtvars>>

\* how many writes to returned mappings a run holds
MaxMutations == 1

\* the caller of config() stores a value under a key of the mapping it was handed
caller_set(k, v) ==
    /\ pc = "config"
    /\ ret_params.kind # "none"
    /\ mutations < MaxMutations
    /\ mutations' = mutations + 1
    /\ LET chained == (op.name = "config" /\ op.status = "ok")
                         \/ (op.name = "mutate" /\ op.status = "chained")
       IN  op' = IF chained
                 THEN Op("mutate", "chained", <<>>, op.section, op.profile, op.value)
                 ELSE Op("mutate", "unchained", <<>>, "", "", EmptyDict)
    /\ IF ret_params.kind = "alias"
       THEN /\ profile_data' = [profile_data EXCEPT
                                   ![DEFAULT_PROFILE][ret_params.section] = update(@, k :> v)]
            /\ UNCHANGED ret_params
       ELSE /\ ret_params' = [ret_params EXCEPT !.value = update(@, k :> v)]
            /\ UNCHANGED profile_data
    /\ UNCHANGED <<pc, config_dir, filepaths, loaded, rankvars, argvvars, fmtvars>>

\* the caller of config() deletes a key of the mapping it was handed
caller_del(k) ==
    /\ pc = "config"
    /\ ret_params.kind # "none"
    /\ mutations < MaxMutations
    /\ mutations' = mutations + 1
    /\ k \in DOMAIN deref(ret_params)
    /\ LET chained == (op.name = "config" /\ op.status = "ok")
                         \/ (op.name = "mutate" /\ op.status = "chained")
           without(m) == [j \in (DOMAIN m) \ {k} |-> m[j]]
       IN  /\ op' = IF chained
                    THEN Op("mutate", "chained", <<>>, op.section, op.profile, op.value)
                    ELSE Op("mutate", "unchained", <<>>, "", "", EmptyDict)
           /\ IF ret_params.kind = "alias"
              THEN /\ profile_data' = [profile_data EXCEPT
                                          ![DEFAULT_PROFILE][ret_params.section] = without(@)]
                   /\ UNCHANGED ret_params
              ELSE /\ ret_params' = [ret_params EXCEPT !.value = without(@)]
                   /\ UNCHANGED profile_data
    /\ UNCHANGED <<pc, config_dir, filepaths, loaded, rankvars, argvvars, fmtvars>>

\* the value a caller writes into a returned mapping
CallerValue == Scalar(9)

\* values of the variables of the components that are not running
RankIdle == a = <<>> /\ method = "average" /\ reverse = TRUE /\ newarray = <<>>
ArgvIdle == argv = <<>> /\ parsed = <<>>
FmtIdle  == fmt = <<>> /\ kwargs = EmptyDict /\ new_str = <<>>
CfgIdle  == /\ config_dir = NoDir /\ filepaths = <<>> /\ profile_data = EmptyDict
            /\ loaded = <<>> /\ ret_params = NoRet
            /\ op = Op("init", "", <<>>, "", "", EmptyDict)
            /\ mutations = 0

\* Config.__init__ with no files, for either kind of config_dir
Init ==
    /\ pc = "config"
    /\ config_dir \in ConfigDirs
    /\ filepaths = <<>>
    /\ profile_data = EmptyDict
    /\ loaded = <<>>
    /\ ret_params = NoRet
    /\ op = Op("init", "", <<>>, "", "", EmptyDict)
    /\ mutations = 0
    /\ RankIdle /\ ArgvIdle /\ FmtIdle

Load    == \E file \in FileNames, cfg \in Docs : load(file, cfg)
LoadOk  == \E file \in FileNames, cfg \in WellFormedDocs : load(file, cfg)
Config  == \E section \in Sections, profile \in Profiles \cup {NoProfile} : config(section, profile)
CallerSet == \E k \in Keys : caller_set(k, CallerValue)
CallerDel == \E k \in Keys : caller_del(k)

Next == Load \/ Config
Spec == Init /\ [][Next]_vars

\* loads of well-formed documents, queries, and callers that write to the
\* mappings they were handed
CallerNext == LoadOk \/ Config \/ CallerSet \/ CallerDel
CallerSpec == Init /\ [][CallerNext]_vars

\* loads of well-formed documents only, no queries
LoadNext == LoadOk
LoadSpec == Init /\ [][LoadNext]_vars

\* loads of well-formed documents and queries
QueryNext == LoadOk \/ Config
QuerySpec == Init /\ [][QueryNext]_vars

(***************************************************************************)
(* Properties of Config                                                    *)
(***************************************************************************)

\* what a loaded document defines for section S of profile P
DocParams(cfg, P, S) ==
    LET ps == {i \in DOMAIN cfg.profiles : cfg.profiles[i].name = P} IN
    IF ps = {} THEN EmptyDict
    ELSE LET secs == cfg.profiles[CHOOSE i \in ps : TRUE].sections
             ss   == {j \in DOMAIN secs : secs[j].name = S}
         IN  IF ss = {} THEN EmptyDict ELSE secs[CHOOSE j \in ss : TRUE].params

\* the loaded files that define key k of (P, S), as positions in load order
Definers(P, S, k) == {i \in DOMAIN loaded : k \in DOMAIN DocParams(loaded[i], P, S)}

Last(I) == CHOOSE i \in I : \A j \in I : j <= i

\* the parameters of (P, S) as the loaded files define them: the union of
\* their keys, each with the value of the last file that defines it
FromFiles(P, S) ==
    [k \in {x \in Keys : Definers(P, S, x) # {}} |->
        DocParams(loaded[Last(Definers(P, S, k))], P, S)[k]]

\* the default parameters of S overlaid per key with those of P
Effective(S, P) ==
    LET d == FromFiles(DEFAULT_PROFILE, S)
        o == FromFiles(P, S)
    IN  [k \in (DOMAIN d) \cup (DOMAIN o) |-> IF k \in DOMAIN o THEN o[k] ELSE d[k]]

SameCall(x, y) == x.section = y.section /\ x.profile = y.profile

\* C1: a config call never changes profile_data, and two successive config
\* calls with the same arguments return equal mappings
C1_ConfigIdempotent ==
    [][op'.name = "config" =>
          /\ profile_data' = profile_data
          /\ (op.name = "config" /\ op.status = "ok" /\ op'.status = "ok" /\ SameCall(op, op'))
                => op'.value = op.value]_vars

\* C2: when the caller writes to the mapping config returned, profile_data is
\* unchanged and the same config call afterwards returns what it returned before
C2_ReturnIsFreshCopy ==
    [][/\ op'.name = "mutate" => profile_data' = profile_data
       /\ (op.name = "mutate" /\ op.status = "chained" /\ op'.name = "config"
               /\ op'.status = "ok" /\ SameCall(op, op'))
            => op'.value = op.value]_vars

\* C3: config(S, P) for a loaded profile P returns the default parameters of S
\* as the loaded files define them, overlaid per key with those of P
C3_ConfigIsOverlayOfFiles ==
    (op.name = "config" /\ op.status = "ok" /\ op.profile # NoProfile)
        => op.value = Effective(op.section, op.profile)

\* C4: after loads of well-formed documents every stored section holds the union
\* of the keys the loaded files define for it, each with the value of the last
\* file defining it, replaced whole; nothing else is stored
C4_LoadMergesPerKey ==
    \A P \in Profiles, S \in Sections :
        get(get(profile_data, P), S) = FromFiles(P, S)

\* C4 witness: two files loaded, the second defines keys of a section but not
\* key k of the first, and k is still stored with the first file's value, while
\* a key both define holds the second file's value
C4_Witness ==
    /\ Len(loaded) = 2
    /\ \E P \in Profiles, S \in Sections, k \in Keys, j \in Keys :
          LET d1 == DocParams(loaded[1], P, S)
              d2 == DocParams(loaded[2], P, S)
          IN  /\ k \in DOMAIN d1 /\ k \notin DOMAIN d2
              /\ j \in DOMAIN d1 /\ j \in DOMAIN d2 /\ d1[j] # d2[j]
              /\ profile_data[P][S][k] = d1[k]
              /\ profile_data[P][S][j] = d2[j]

NoDuplicates(s) == \A i, j \in DOMAIN s : s[i] = s[j] => i = j

\* C5: loading a recorded path returns False and changes neither profile_data
\* nor filepaths; load returns True only for a path not yet recorded, which it
\* records; filepaths never holds a path twice
C5_ReloadIsNoOp ==
    /\ [][op'.name = "load" =>
            /\ op'.file \in Range(filepaths) =>
                  /\ op'.status = "False"
                  /\ profile_data' = profile_data
                  /\ filepaths' = filepaths
            /\ op'.status = "True" =>
                  /\ op'.file \notin Range(filepaths)
                  /\ filepaths' = Append(filepaths, op'.file)]_vars
    /\ [](NoDuplicates(filepaths))

\* C5 witness: a path loaded first is loaded again after another file was
\* loaded, and the call returned False
C5_Witness ==
    /\ op.name = "load" /\ op.status = "False"
    /\ Len(filepaths) = 2
    /\ op.file = filepaths[1]

\* C6: a load that raises leaves profile_data and filepaths as they were
C6_FailedLoadChangesNothing ==
    [][(op'.name = "load" /\ op'.status = "raise") =>
          (profile_data' = profile_data /\ filepaths' = filepaths)]_vars

(***************************************************************************)
(* rankdata                                                                *)
(***************************************************************************)

\* longest input sequence and largest input value of rankdata
MaxLen == 4
MaxVal == 3

\* a rank as a fraction: `sumranks / float(dupcount) + 1` is not a whole number
\* in general
Frac(n, d) == [num |-> n, den |-> d]

\* the offset that turns a 0-based position into a rank is lost
averank_zero_based(sumranks, dupcount) == Frac(sumranks, dupcount)

\* rankdata(): averank = sumranks / float(dupcount) + 1
averank(sumranks, dupcount) == Frac(sumranks + dupcount, dupcount)

\* rank_simple(): sorted(range(len(vector)), key=vector.__getitem__, reverse=reverse),
\* a stable sort in either direction; sequence positions are 1-based here
rank_simple(vector, rev) ==
    LET n == Len(vector)
        first(i, j) == \/ (IF rev THEN vector[i] > vector[j] ELSE vector[i] < vector[j])
                       \/ (vector[i] = vector[j] /\ i < j)
    IN  [p \in 1..n |-> CHOOSE i \in 1..n : Cardinality({j \in 1..n : first(j, i)}) = p - 1]

\* rankdata(): `for j in range(i - dupcount + 1, i + 1): newarray[ivec[j]] = ...`
assign(arr, ivec, lo, hi, val) ==
    [x \in DOMAIN arr |-> IF \E j \in lo..hi : ivec[j + 1] = x THEN val ELSE arr[x]]

\* rankdata(): the loop `for i in range(n)` from iteration i (0-based) on
RECURSIVE rank_loop(_, _, _, _, _, _)
rank_loop(i, st, n, ivec, svec, use_min) ==
    IF i >= n THEN st.newarray
    ELSE LET sumranks == st.sumranks + i
             dupcount == st.dupcount + 1
             minrank  == IF st.minrank # 0 THEN st.minrank ELSE i + 1
         IN  IF i = n - 1 \/ svec[i + 1] # svec[i + 2]
             THEN LET val == IF use_min THEN Frac(minrank, 1) ELSE averank(sumranks, dupcount)
                  IN  rank_loop(i + 1,
                                [sumranks |-> 0, dupcount |-> 0, minrank |-> 0,
                                 newarray |-> assign(st.newarray, ivec, i - dupcount + 1, i, val)],
                                n, ivec, svec, use_min)
             ELSE rank_loop(i + 1,
                            [sumranks |-> sumranks, dupcount |-> dupcount, minrank |-> minrank,
                             newarray |-> st.newarray],
                            n, ivec, svec, use_min)

\* rankdata
rankdata(vec, meth, rev) ==
    LET use_min == meth = "min"
        n       == Len(vec)
        ivec    == rank_simple(vec, rev)
        svec    == [p \in 1..n |-> vec[ivec[p]]]
    IN  rank_loop(0, [sumranks |-> 0, dupcount |-> 0, minrank |-> 0,
                      newarray |-> [x \in 1..n |-> Frac(0, 1)]],
                  n, ivec, svec, use_min)

SeqsUpTo(S, n) == UNION {[1..m -> S] : m \in 0..n}

RankInit ==
    /\ pc = "rank_call"
    /\ a \in SeqsUpTo(1..MaxVal, MaxLen)
    /\ method \in {"average", "min"}
    /\ reverse \in BOOLEAN
    /\ newarray = <<>>
    /\ CfgIdle /\ ArgvIdle /\ FmtIdle

Rankdata ==
    /\ pc = "rank_call"
    /\ newarray' = rankdata(a, method, reverse)
    /\ pc' = "rank_done"
    /\ UNCHANGED <<a, method, reverse, cfgvars, argvvars, fmtvars>>

RankNext == Rankdata
RankSpec == RankInit /\ [][RankNext]_vars

\* values placed before a[i] in the requested direction
Ahead(i) == {j \in DOMAIN a : IF reverse THEN a[j] > a[i] ELSE a[j] < a[i]}
\* the tie group of a[i]
Ties(i)  == {j \in DOMAIN a : a[j] = a[i]}

\* C7: rankdata returns one rank per element; an element whose tie group of k
\* equal values starts at 0-based sorted position p gets p+1 under 'min' and
\* p + (k+1)/2 under 'average'
C7_RankOfTieGroup ==
    pc = "rank_done" =>
        /\ Len(newarray) = Len(a)
        /\ DOMAIN newarray = DOMAIN a
        /\ \A i \in DOMAIN a :
              LET p == Cardinality(Ahead(i))
                  k == Cardinality(Ties(i))
                  r == newarray[i]
              IN  /\ r.den > 0
                  /\ IF method = "min"
                     THEN r.num = (p + 1) * r.den
                     ELSE 2 * r.num = (2 * p + k + 1) * r.den

\* C7 witness: a descending average ranking in which two equal values behind a
\* larger one share rank 2.5
C7_Witness ==
    /\ pc = "rank_done" /\ method = "average" /\ reverse
    /\ \E i, j, l \in DOMAIN a :
          /\ i # j /\ a[i] = a[j] /\ a[l] > a[i]
          /\ 2 * newarray[i].num = 5 * newarray[i].den
          /\ newarray[j] = newarray[i]

(***************************************************************************)
(* parse_argv                                                              *)
(***************************************************************************)

\* ---- characters; a string is a sequence of them ----
UpperCase == <<"A","B","C","D","E","F","G","H","I","J","K","L","M",
               "N","O","P","Q","R","S","T","U","V","W","X","Y","Z">>
LowerCase == <<"a","b","c","d","e","f","g","h","i","j","k","l","m",
               "n","o","p","q","r","s","t","u","v","w","x","y","z">>
DecimalDigits == <<"0","1","2","3","4","5","6","7","8","9">>
\* the character VULGAR FRACTION ONE HALF: numeric, not decimal
HalfChar == "U+00BD"
\* characters str.isnumeric accepts and str.isdecimal does not
OtherNumerics == {HalfChar}

IsDecimalChar(c) == \E i \in DOMAIN DecimalDigits : DecimalDigits[i] = c
DigitValue(c) == (CHOOSE i \in DOMAIN DecimalDigits : DecimalDigits[i] = c) - 1

\* str.isdecimal
isdecimal(val) == Len(val) > 0 /\ \A i \in DOMAIN val : IsDecimalChar(val[i])
\* str.isnumeric
isnumeric(val) ==
    Len(val) > 0 /\ \A i \in DOMAIN val : IsDecimalChar(val[i]) \/ val[i] \in OtherNumerics

\* str.lower
lower(val) ==
    [i \in DOMAIN val |->
        IF \E j \in DOMAIN UpperCase : UpperCase[j] = val[i]
        THEN LowerCase[CHOOSE j \in DOMAIN UpperCase : UpperCase[j] = val[i]]
        ELSE val[i]]

\* ---- typed values: what typecast returns, or the exception it raises ----
TV(type, num, den, bool, str) ==
    [type |-> type, num |-> num, den |-> den, bool |-> bool, str |-> str]
IntV(n)      == TV("int", n, 1, FALSE, <<>>)
FloatV(n, d) == TV("float", n, d, FALSE, <<>>)
BoolV(b)     == TV("bool", 0, 1, b, <<>>)
NoneV        == TV("None", 0, 1, FALSE, <<>>)
StrV(s)      == TV("str", 0, 1, FALSE, s)
ValueError   == TV("ValueError", 0, 1, FALSE, <<>>)

\* the number a string of decimal digits denotes
RECURSIVE digits_value(_)
digits_value(val) ==
    IF Len(val) = 0 THEN 0
    ELSE 10 * digits_value(SubSeq(val, 1, Len(val) - 1)) + DigitValue(val[Len(val)])

RECURSIVE pow10(_)
pow10(n) == IF n = 0 THEN 1 ELSE 10 * pow10(n - 1)

\* int() of a string str.isdecimal accepts
int(val) == IntV(digits_value(val))

\* float() of a string: an optional sign, digits, an optional point and
\* digits; anything else raises ValueError
float(val) ==
    LET signed == Len(val) > 0 /\ val[1] \in {"+", "-"}
        body   == IF signed THEN Tail(val) ELSE val
        dots   == {i \in DOMAIN body : body[i] = "."}
        whole  == IF dots = {} THEN body ELSE SubSeq(body, 1, (CHOOSE i \in dots : TRUE) - 1)
        frac   == IF dots = {} THEN <<>>
                  ELSE SubSeq(body, (CHOOSE i \in dots : TRUE) + 1, Len(body))
        ok     == /\ Cardinality(dots) <= 1
                  /\ Len(whole) + Len(frac) > 0
                  /\ \A i \in DOMAIN whole : IsDecimalChar(whole[i])
                  /\ \A i \in DOMAIN frac : IsDecimalChar(frac[i])
        mag    == digits_value(whole) * pow10(Len(frac)) + digits_value(frac)
    IN  IF ~ok THEN ValueError
        ELSE FloatV(IF signed /\ val[1] = "-" THEN 0 - mag ELSE mag, pow10(Len(frac)))

Str_false == {<<"f","a","l","s","e">>, <<"f">>, <<"n","o">>, <<"n">>}
Str_true  == {<<"t","r","u","e">>, <<"t">>, <<"y","e","s">>, <<"y">>}
Str_null  == {<<"n","u","l","l">>, <<"n","o","n","e">>, <<"n","i","l">>}

\* parse_argv.typecast
typecast(val) ==
    IF isdecimal(val) THEN int(val)
    ELSE IF isnumeric(val) THEN float(val)
    ELSE IF lower(val) \in Str_false THEN BoolV(FALSE)
    ELSE IF lower(val) \in Str_true THEN BoolV(TRUE)
    ELSE IF lower(val) \in Str_null THEN NoneV
    ELSE IF Len(val) > 0 THEN StrV(val) ELSE NoneV

\* `'=' in arg`
has_eq(arg) == \E i \in DOMAIN arg : arg[i] = "="

\* arg.split('=', 1): the parts before and after the first '='
split_eq(arg) ==
    LET at == CHOOSE i \in DOMAIN arg : arg[i] = "=" /\ \A j \in 1..(i - 1) : arg[j] # "="
    IN  <<SubSeq(arg, 1, at - 1), SubSeq(arg, at + 1, Len(arg))>>

\* dict item assignment d[k] = v
setitem(d, k, v) == [x \in (DOMAIN d) \cup {k} |-> IF x = k THEN v ELSE d[x]]

Raised == [status |-> "raise", args |-> <<>>, kwargs |-> <<>>]

\* parse_argv: the loop `for arg in argv` from the i-th token on; an exception
\* of typecast, or of unpacking a split without '=', ends the call
RECURSIVE parse_loop(_, _, _, _, _)
parse_loop(tokens, i, args, kw_map, args_done) ==
    IF i > Len(tokens) THEN [status |-> "ok", args |-> args, kwargs |-> kw_map]
    ELSE LET arg == tokens[i] IN
         IF ~args_done /\ ~has_eq(arg)
         THEN LET v == typecast(arg) IN
              IF v.type = "ValueError" THEN Raised
              ELSE parse_loop(tokens, i + 1, Append(args, v), kw_map, FALSE)
         ELSE IF ~has_eq(arg) THEN Raised
         ELSE LET kv == split_eq(arg)
                  v  == typecast(kv[2])
              IN  IF v.type = "ValueError" THEN Raised
                  ELSE parse_loop(tokens, i + 1, args, setitem(kw_map, kv[1], v), TRUE)

\* parse_argv
parse_argv(tokens) == parse_loop(tokens, 1, <<>>, <<>>, FALSE)

\* longest argv
MaxArgs == 3

RawValues == { <<"1","2">>, <<"0","7">>, <<"-","5">>, <<"5",".","5">>, <<HalfChar>>,
               <<"N","o">>, <<"T">>, <<"n","i","l">>, <<>>, <<"a","b">> }
KwNames   == { <<"x">>, <<"7">> }
KwTokens  == { k \o <<"=">> \o v : k \in KwNames, v \in RawValues \cup {<<"a","=","b">>} }
Tokens    == RawValues \cup KwTokens

ArgvInit ==
    /\ pc = "argv_call"
    /\ argv \in SeqsUpTo(Tokens, MaxArgs)
    /\ parsed = <<>>
    /\ CfgIdle /\ RankIdle /\ FmtIdle

ParseArgv ==
    /\ pc = "argv_call"
    /\ parsed' = parse_argv(argv)
    /\ pc' = "argv_done"
    /\ UNCHANGED <<argv, cfgvars, rankvars, fmtvars>>

ArgvNext == ParseArgv
ArgvSpec == ArgvInit /\ [][ArgvNext]_vars

\* ---- the coercion of the specification, by its stated precedence ----
Unsigned(s) == IF Len(s) > 0 /\ s[1] \in {"+", "-"} THEN Tail(s) ELSE s
Negative(s) == Len(s) > 0 /\ s[1] = "-"
AllDigits(s) == Len(s) > 0 /\ \A i \in DOMAIN s : IsDecimalChar(s[i])
\* digits, a point, digits
PointForm(s) ==
    \E i \in DOMAIN s :
        /\ s[i] = "."
        /\ AllDigits(SubSeq(s, 1, i - 1))
        /\ AllDigits(SubSeq(s, i + 1, Len(s)))
PointAt(s) == CHOOSE i \in DOMAIN s : s[i] = "."
Signed(s, n) == IF Negative(s) THEN 0 - n ELSE n

Coerced(s) ==
    IF AllDigits(Unsigned(s)) THEN IntV(Signed(s, digits_value(Unsigned(s))))
    ELSE IF PointForm(Unsigned(s))
         THEN LET u == Unsigned(s)
                  w == SubSeq(u, 1, PointAt(u) - 1)
                  f == SubSeq(u, PointAt(u) + 1, Len(u))
              IN  FloatV(Signed(s, digits_value(w) * pow10(Len(f)) + digits_value(f)),
                         pow10(Len(f)))
    ELSE IF s = <<HalfChar>> THEN FloatV(1, 2)
    ELSE IF lower(s) \in Str_false THEN BoolV(FALSE)
    ELSE IF lower(s) \in Str_true THEN BoolV(TRUE)
    ELSE IF lower(s) \in Str_null THEN NoneV
    ELSE IF Len(s) > 0 THEN StrV(s) ELSE NoneV

\* C8: every raw token is coerced by the stated precedence: signed decimal
\* digits to an integer, other numeric forms such as 5.5 to a float, then the
\* boolean and null words, then the string itself, the empty string to null
C8_CoercionPrecedence ==
    (pc = "argv_done" /\ \A i \in DOMAIN argv : ~has_eq(argv[i])) =>
        /\ parsed.status = "ok"
        /\ parsed.args = [i \in DOMAIN argv |-> Coerced(argv[i])]

\* the first token that contains '=', Len(argv) + 1 when there is none
FirstKw == IF \E i \in DOMAIN argv : has_eq(argv[i])
           THEN CHOOSE i \in DOMAIN argv :
                    has_eq(argv[i]) /\ \A j \in 1..(i - 1) : ~has_eq(argv[j])
           ELSE Len(argv) + 1
\* the key of a keyword token: its longest prefix without '='
KeyOf(t) == CHOOSE k \in {SubSeq(t, 1, n) : n \in 0..Len(t)} :
                ~has_eq(k) /\ Len(k) < Len(t) /\ t[Len(k) + 1] = "="
ValueOf(t) == SubSeq(t, Len(KeyOf(t)) + 2, Len(t))
LastWith(key) == CHOOSE i \in FirstKw..Len(argv) :
                    /\ KeyOf(argv[i]) = key
                    /\ \A j \in (i + 1)..Len(argv) : KeyOf(argv[j]) # key

\* C9: when every token from the first one with '=' on contains '=', the
\* positional list is the coerced tokens before it, in order, and the keyword
\* map has one entry per key, split at the first '=', the key verbatim, the
\* value coerced, the last occurrence kept
C9_PositionalThenKeywords ==
    (pc = "argv_done" /\ \A i \in FirstKw..Len(argv) : has_eq(argv[i])) =>
        /\ parsed.status = "ok"
        /\ parsed.args = [i \in 1..(FirstKw - 1) |-> Coerced(argv[i])]
        /\ DOMAIN parsed.kwargs = {KeyOf(argv[i]) : i \in FirstKw..Len(argv)}
        /\ \A key \in DOMAIN parsed.kwargs :
              parsed.kwargs[key] = Coerced(ValueOf(argv[LastWith(key)]))

(***************************************************************************)
(* replace_tokens                                                          *)
(***************************************************************************)

\* [\p{Lu}\d_]
IsTokenChar(c) ==
    \/ \E i \in DOMAIN UpperCase : UpperCase[i] = c
    \/ IsDecimalChar(c)
    \/ c = "_"

\* where a match of \<[\p{Lu}\d_]+\> that starts at i ends, 0 when none does
match_end(s, i) ==
    IF s[i] # "<" THEN 0
    ELSE LET stops == {j \in (i + 1)..Len(s) : ~IsTokenChar(s[j])}
         IN  IF stops = {} THEN 0
             ELSE LET j == CHOOSE x \in stops : \A y \in stops : x <= y
                  IN  IF j > i + 1 /\ s[j] = ">" THEN j ELSE 0

\* re.findall: the matches from left to right, none overlapping
RECURSIVE findall(_, _)
findall(s, i) ==
    IF i > Len(s) THEN <<>>
    ELSE IF match_end(s, i) > 0
         THEN <<SubSeq(s, i, match_end(s, i))>> \o findall(s, match_end(s, i) + 1)
         ELSE findall(s, i + 1)

\* str.replace(old, new): every occurrence from left to right, none overlapping
RECURSIVE str_replace(_, _, _)
str_replace(s, old, new) ==
    IF Len(s) < Len(old) THEN s
    ELSE IF SubSeq(s, 1, Len(old)) = old
         THEN new \o str_replace(SubSeq(s, Len(old) + 1, Len(s)), old, new)
         ELSE <<Head(s)>> \o str_replace(Tail(s), old, new)

\* replace_tokens: the loop `for token in tokens` from the i-th token on
RECURSIVE replace_loop(_, _, _, _)
replace_loop(tokens, i, str, kw) ==
    IF i > Len(tokens) THEN [status |-> "ok", str |-> str]
    ELSE LET token     == tokens[i]
             token_var == lower(SubSeq(token, 2, Len(token) - 1))
         IN  IF token_var \notin DOMAIN kw \/ kw[token_var] = <<>>
             THEN [status |-> "raise", str |-> <<>>]
             ELSE replace_loop(tokens, i + 1, str_replace(str, token, kw[token_var]), kw)

\* replace_tokens
replace_tokens(f, kw) == replace_loop(findall(f, 1), 1, f, kw)

\* how many pieces a format string is made of
MaxPieces == 3

Pieces == { <<"<","A",">">>, <<"<","B",">">>, <<"x">>, <<"<">>, <<"A">> }
RECURSIVE Concat(_)
Concat(ss) == IF Len(ss) = 0 THEN <<>> ELSE Head(ss) \o Concat(Tail(ss))
Templates == {Concat(ps) : ps \in SeqsUpTo(Pieces, MaxPieces)}
KwargNames  == { <<"a">>, <<"b">> }
KwargValues == { <<>>, <<"y">>, <<"<","B",">">>, <<"<","A",">">> }
Kwargs == UNION {[D -> KwargValues] : D \in SUBSET KwargNames}

FmtInit ==
    /\ pc = "fmt_call"
    /\ fmt \in Templates
    /\ kwargs \in Kwargs
    /\ new_str = <<>>
    /\ CfgIdle /\ RankIdle /\ ArgvIdle

ReplaceTokens ==
    /\ pc = "fmt_call"
    /\ new_str' = replace_tokens(fmt, kwargs)
    /\ pc' = "fmt_done"
    /\ UNCHANGED <<fmt, kwargs, cfgvars, rankvars, argvvars>>

FmtNext == ReplaceTokens
FmtSpec == FmtInit /\ [][FmtNext]_vars

KeyFor(token) == lower(SubSeq(token, 2, Len(token) - 1))
\* some placeholder of the template has no value, or an empty one
Unfilled ==
    \E i \in DOMAIN fmt :
        /\ match_end(fmt, i) > 0
        /\ LET key == KeyFor(SubSeq(fmt, i, match_end(fmt, i)))
           IN  key \notin DOMAIN kwargs \/ kwargs[key] = <<>>

\* the template with each of its own placeholders replaced by its value, the
\* values inserted verbatim
RECURSIVE Substituted(_, _)
Substituted(s, i) ==
    IF i > Len(s) THEN <<>>
    ELSE IF match_end(s, i) > 0
         THEN kwargs[KeyFor(SubSeq(s, i, match_end(s, i)))] \o Substituted(s, match_end(s, i) + 1)
         ELSE <<s[i]>> \o Substituted(s, i + 1)

\* C10: replace_tokens raises exactly when a placeholder of the template has no
\* or an empty value; otherwise it returns the template with the template's own
\* placeholder occurrences replaced and the values inserted verbatim
C10_SubstitutesTemplateOnly ==
    pc = "fmt_done" =>
        /\ (new_str.status = "raise") <=> Unfilled
        /\ ~Unfilled => new_str.str = Substituted(fmt, 1)

====
